---- MODULE Spec2Model ----
(***************************************************************************)
(* The vote ledger of sih-backend: voter registry, vote submission, the    *)
(* hash-linked chain of blocks and the tamper-detection log, as wired by   *)
(* the voting router.                                                      *)
(*                                                                         *)
(* Spec is the router with its services.  MonitorSpec adds direct calls of *)
(* detectTampering, which the router never makes.  ElectionSpec runs seven *)
(* voters past the thresholds of the pattern scan.  AuditSpec audits       *)
(* ledgers with copied digests, a corrupted block and a clock set back.    *)
(* TallySpec reads the tally of votes for candidate ids of any spelling.   *)
(* RegistrySpec puts the registry under every call it offers.              *)
(***************************************************************************)
EXTENDS Integers, Sequences, FiniteSets, Bags, TLC

\* ---------------------------------------------------------------- bounds
MaxTime == 1
MaxRequests == 2
MaxLog == 1

\* ---------------------------------------------------------------- inputs
VoterIds == {"v1", "v2"}
Candidates == {"cA", "cB"}
PrivateKeys == {"k1", "k2"}
Secrets == {"s1"}

\* ------------------------------------------------------------ KeyManager
\* The public key of a private key: an uncompressed point, hex encoded.
PublicKeyOf(privateKey) ==
    [enc |-> "04", len |-> 130, hex |-> TRUE, point |-> privateKey]

\* A key of the wrong shape (63 hex characters), as a client may send it.
MalformedKey == [enc |-> "04", len |-> 63, hex |-> TRUE, point |-> "k1"]

NoKey == [enc |-> "", len |-> 0, hex |-> TRUE, point |-> ""]

\* The compressed encoding of the same point: another string.
CompressedKeyOf(privateKey) ==
    [enc |-> "02", len |-> 66, hex |-> TRUE, point |-> privateKey]

\* Further keys of the wrong shape: a character that is no hex digit, a
\* prefix that is none of 02, 03 and 04, and 131 characters.
NonHexKey == [enc |-> "04", len |-> 130, hex |-> FALSE, point |-> "k2"]

WrongPrefixKey == [enc |-> "05", len |-> 130, hex |-> TRUE, point |-> "k2"]

OverlongKey == [enc |-> "04", len |-> 131, hex |-> TRUE, point |-> "k2"]

\* Digest of the concatenation candidateId, voterId, timestamp in this order.
createVoteHash(candidateId, voterId, timestamp) ==
    <<candidateId, voterId, timestamp>>

signMessage(message, privateKey) ==
    [msg |-> message, signer |-> privateKey]

verifySignature(message, signature, publicKey) ==
    /\ signature.msg = message
    /\ PublicKeyOf(signature.signer) = publicKey

\* ------------------------------------------------ ZeroKnowledgeProofSystem
createVoteProof(candidateId, voterId, secret) ==
    [commitment |-> <<candidateId, voterId, secret>>,
     proof |-> <<candidateId, voterId, secret>>,
     publicInputs |-> <<candidateId, voterId>>]

verifyVoteProof(zkProof, candidateId, voterId) ==
    /\ zkProof.commitment[1] = candidateId
    /\ zkProof.commitment[2] = voterId
    /\ zkProof.publicInputs = <<candidateId, voterId>>

\* ----------------------------------------------------------------- state
VARIABLES
    voters,                 \* VoterRegistrationService.voters, in insertion order
    registeredPublicKeys,   \* VoterRegistrationService.registeredPublicKeys
    chain,                  \* Blockchain: the blocks, genesis first
    suspiciousActivities,   \* TamperDetectionService.suspiciousActivities
    now,                    \* the wall clock (Date.now())
    uuids,                  \* how many vote ids uuidv4() has handed out
    req,                    \* the results of POST /submit awaiting their response
    issued                  \* the blockIndex values sent in 201 responses

vars == <<voters, registeredPublicKeys, chain, suspiciousActivities, now,
          uuids, req, issued>>

\* ------------------------------------------------------------ Blockchain
GenesisHash == <<"genesis">>

GenesisBlock ==
    [index |-> 0, timestamp |-> 0, votes |-> <<>>,
     previousHash |-> <<"0">>, hash |-> GenesisHash]

\* Digest over {index, timestamp, vote, previousHash}.
calculateHash(index, timestamp, votes, previousHash) ==
    <<index, timestamp, votes, previousHash>>

getLatestBlock(c) == c[Len(c)]

\* createBlock linking every block to the genesis block instead of the tail.
createBlockLinksGenesis(c, vote, timestamp) ==
    [index |-> Len(c), timestamp |-> timestamp, votes |-> <<vote>>,
     previousHash |-> GenesisHash,
     hash |-> calculateHash(Len(c), timestamp, <<vote>>, GenesisHash)]

createBlock(c, vote, timestamp) ==
    LET previousHash == getLatestBlock(c).hash
    IN  [index |-> Len(c), timestamp |-> timestamp, votes |-> <<vote>>,
         previousHash |-> previousHash,
         hash |-> calculateHash(Len(c), timestamp, <<vote>>, previousHash)]

\* Ledger.append: links a new block to the tail and returns its index.
addVote(c, vote, timestamp) ==
    [result |-> [isValid |-> TRUE, reason |-> "", blockIndex |-> Len(c)],
     chain |-> Append(c, createBlock(c, vote, timestamp))]

RECURSIVE votesOf(_)
votesOf(c) ==
    IF c = <<>> THEN <<>> ELSE Head(c).votes \o votesOf(Tail(c))

blockchainGetAllVotes(c) == votesOf(c)

findVoteByVoterId(c, voterId) ==
    LET all == blockchainGetAllVotes(c)
        hits == {i \in 1..Len(all) : all[i].voterId = voterId}
    IN  IF hits = {} THEN <<>>
        ELSE <<all[CHOOSE i \in hits : \A j \in hits : i <= j]>>

verifyChain(c) ==
    \A i \in 2..Len(c) :
        /\ c[i].hash = calculateHash(c[i].index, c[i].timestamp, c[i].votes,
                                     c[i].previousHash)
        /\ c[i].previousHash = c[i - 1].hash

getBlockchainInfo(c) ==
    [length |-> Len(c), latestHash |-> getLatestBlock(c).hash,
     isValid |-> verifyChain(c)]

\* ------------------------------------------------ VoterRegistrationService
isValidPublicKey(publicKey) ==
    /\ publicKey.len >= 64
    /\ publicKey.len <= 130
    /\ publicKey.hex
    /\ publicKey.enc \in {"04", "02", "03"}

getVoter(vs, voterId) ==
    SelectSeq(vs, LAMBDA v : v.id = voterId)

hasVoter(vs, voterId) == getVoter(vs, voterId) # <<>>

\* The first voter, in insertion order, holding the key; <<>> when none does.
getVoterByPublicKey(vs, publicKey) ==
    LET hits == SelectSeq(vs, LAMBDA v : v.publicKey = publicKey)
    IN  IF hits = <<>> THEN <<>> ELSE <<Head(hits)>>

\* isVoterEligible without the hasVoted test.
isVoterEligibleRegisteredOnly(vs, voterId) ==
    LET voter == getVoter(vs, voterId)
    IN  IF voter # <<>> THEN voter[1].isRegistered ELSE FALSE

isVoterEligible(vs, voterId) ==
    LET voter == getVoter(vs, voterId)
    IN  IF voter # <<>> THEN voter[1].isRegistered /\ ~voter[1].hasVoted
        ELSE FALSE

\* markVoterAsVoted setting the flag on a copy that is then dropped.
markVoterAsVotedOnCopy(vs, voterId) ==
    LET voter == getVoter(vs, voterId)
    IN  [ok |-> voter # <<>> /\ voter[1].isRegistered, voters |-> vs]

markVoterAsVoted(vs, voterId) ==
    LET voter == getVoter(vs, voterId)
    IN  IF voter # <<>> /\ voter[1].isRegistered
        THEN [ok |-> TRUE,
              voters |-> [i \in 1..Len(vs) |->
                            IF vs[i].id = voterId
                            THEN [vs[i] EXCEPT !.hasVoted = TRUE]
                            ELSE vs[i]]]
        ELSE [ok |-> FALSE, voters |-> vs]

\* registerVoter storing the voter without adding the key to the set.
registerVoterForgetsKey(vs, keys, voterId, publicKey) ==
    IF hasVoter(vs, voterId)
    THEN [success |-> FALSE, error |-> "Voter already registered",
          voters |-> vs, registeredPublicKeys |-> keys]
    ELSE IF publicKey \in keys
    THEN [success |-> FALSE, error |-> "Public key already in use",
          voters |-> vs, registeredPublicKeys |-> keys]
    ELSE IF ~isValidPublicKey(publicKey)
    THEN [success |-> FALSE, error |-> "Invalid public key format",
          voters |-> vs, registeredPublicKeys |-> keys]
    ELSE [success |-> TRUE, error |-> "",
          voters |-> Append(vs, [id |-> voterId, publicKey |-> publicKey,
                                 isRegistered |-> TRUE, hasVoted |-> FALSE]),
          registeredPublicKeys |-> keys]

\* registerVoter without the check for a registered voter id: the map's set
\* replaces the record under the id with a fresh one.
registerVoterOverwrites(vs, keys, voterId, publicKey) ==
    IF publicKey \in keys
    THEN [success |-> FALSE, error |-> "Public key already in use",
          voters |-> vs, registeredPublicKeys |-> keys]
    ELSE IF ~isValidPublicKey(publicKey)
    THEN [success |-> FALSE, error |-> "Invalid public key format",
          voters |-> vs, registeredPublicKeys |-> keys]
    ELSE LET voter == [id |-> voterId, publicKey |-> publicKey,
                       isRegistered |-> TRUE, hasVoted |-> FALSE]
         IN  [success |-> TRUE, error |-> "",
              voters |-> IF hasVoter(vs, voterId)
                         THEN [i \in 1..Len(vs) |->
                                  IF vs[i].id = voterId THEN voter ELSE vs[i]]
                         ELSE Append(vs, voter),
              registeredPublicKeys |-> keys \cup {publicKey}]

\* The voter record's registrationDate is written here and read nowhere; the
\* model leaves it out.
registerVoter(vs, keys, voterId, publicKey) ==
    IF hasVoter(vs, voterId)
    THEN [success |-> FALSE, error |-> "Voter already registered",
          voters |-> vs, registeredPublicKeys |-> keys]
    ELSE IF publicKey \in keys
    THEN [success |-> FALSE, error |-> "Public key already in use",
          voters |-> vs, registeredPublicKeys |-> keys]
    ELSE IF ~isValidPublicKey(publicKey)
    THEN [success |-> FALSE, error |-> "Invalid public key format",
          voters |-> vs, registeredPublicKeys |-> keys]
    ELSE [success |-> TRUE, error |-> "",
          voters |-> Append(vs, [id |-> voterId, publicKey |-> publicKey,
                                 isRegistered |-> TRUE, hasVoted |-> FALSE]),
          registeredPublicKeys |-> keys \cup {publicKey}]

getVoterStats(vs) ==
    LET voted == Len(SelectSeq(vs, LAMBDA v : v.hasVoted))
    IN  [total |-> Len(vs), voted |-> voted, remaining |-> Len(vs) - voted]

\* ------------------------------------------------------------ VoteService
Rejected(reason) == [isValid |-> FALSE, reason |-> reason, blockIndex |-> -1]

\* The vote object submitVote builds from a submission.
makeVote(sub, voter, id, timestamp) ==
    [id |-> id, voterId |-> voter.id, candidateId |-> sub.candidateId,
     voteHash |-> sub.voteHash, signature |-> sub.signature,
     zeroKnowledgeProof |-> sub.zeroKnowledgeProof,
     timestamp |-> timestamp, publicKey |-> sub.publicKey]

\* submitVote without the eligibility check.
submitVoteSkipsEligibility(vs, c, t, n, sub) ==
    LET found == getVoterByPublicKey(vs, sub.publicKey)
    IN  IF found = <<>>
        THEN [result |-> Rejected("Voter not found or not registered"),
              voters |-> vs, chain |-> c, uuids |-> n]
        ELSE IF ~verifySignature(sub.voteHash, sub.signature, sub.publicKey)
        THEN [result |-> Rejected("Invalid signature"),
              voters |-> vs, chain |-> c, uuids |-> n]
        ELSE LET vote == makeVote(sub, found[1], n + 1, t)
                 added == addVote(c, vote, t)
             IN  [result |-> added.result,
                  voters |-> markVoterAsVoted(vs, found[1].id).voters,
                  chain |-> added.chain, uuids |-> n + 1]

\* submitVote adding the vote to the chain before it verifies the signature.
submitVoteAppendsFirst(vs, c, t, n, sub) ==
    LET found == getVoterByPublicKey(vs, sub.publicKey)
    IN  IF found = <<>>
        THEN [result |-> Rejected("Voter not found or not registered"),
              voters |-> vs, chain |-> c, uuids |-> n]
        ELSE IF ~isVoterEligible(vs, found[1].id)
        THEN [result |-> Rejected("Voter has already voted or is not eligible"),
              voters |-> vs, chain |-> c, uuids |-> n]
        ELSE LET vote == makeVote(sub, found[1], n + 1, t)
                 added == addVote(c, vote, t)
             IN  IF ~verifySignature(sub.voteHash, sub.signature,
                                     sub.publicKey)
                 THEN [result |-> Rejected("Invalid signature"),
                       voters |-> vs, chain |-> added.chain, uuids |-> n + 1]
                 ELSE [result |-> added.result,
                       voters |-> markVoterAsVoted(vs, found[1].id).voters,
                       chain |-> added.chain, uuids |-> n + 1]

\* submitVote marking the voter as soon as the voter is found eligible.
submitVoteMarksEligible(vs, c, t, n, sub) ==
    LET found == getVoterByPublicKey(vs, sub.publicKey)
    IN  IF found = <<>>
        THEN [result |-> Rejected("Voter not found or not registered"),
              voters |-> vs, chain |-> c, uuids |-> n]
        ELSE IF ~isVoterEligible(vs, found[1].id)
        THEN [result |-> Rejected("Voter has already voted or is not eligible"),
              voters |-> vs, chain |-> c, uuids |-> n]
        ELSE IF ~verifySignature(sub.voteHash, sub.signature, sub.publicKey)
        THEN [result |-> Rejected("Invalid signature"),
              voters |-> markVoterAsVoted(vs, found[1].id).voters,
              chain |-> c, uuids |-> n]
        ELSE LET vote == makeVote(sub, found[1], n + 1, t)
                 added == addVote(c, vote, t)
             IN  [result |-> added.result,
                  voters |-> markVoterAsVoted(vs, found[1].id).voters,
                  chain |-> added.chain, uuids |-> n + 1]

\* submitVote on the registry vs and the chain c at time t, n vote ids having
\* been handed out: its result and the registry, chain and id count it leaves.
submitVote(vs, c, t, n, sub) ==
    LET found == getVoterByPublicKey(vs, sub.publicKey)
    IN  IF found = <<>>
        THEN [result |-> Rejected("Voter not found or not registered"),
              voters |-> vs, chain |-> c, uuids |-> n]
        ELSE IF ~isVoterEligible(vs, found[1].id)
        THEN [result |-> Rejected("Voter has already voted or is not eligible"),
              voters |-> vs, chain |-> c, uuids |-> n]
        ELSE IF ~verifySignature(sub.voteHash, sub.signature, sub.publicKey)
        THEN [result |-> Rejected("Invalid signature"),
              voters |-> vs, chain |-> c, uuids |-> n]
        ELSE LET vote == makeVote(sub, found[1], n + 1, t)
                 added == addVote(c, vote, t)
             IN  [result |-> added.result,
                  voters |-> IF added.result.isValid
                             THEN markVoterAsVoted(vs, found[1].id).voters
                             ELSE vs,
                  chain |-> added.chain, uuids |-> n + 1]

\* A registry whose markVoted answers false and marks nothing.
markVoterAsVotedRefuses(vs, voterId) == [ok |-> FALSE, voters |-> vs]

\* submitVote from the vote object on, for a body that passed the voter and
\* signature checks, marked being what the registry's markVoterAsVoted
\* answers: its answer is dropped and addVote's result is returned.
submitVoteMarking(vs, c, t, n, sub, marked) ==
    LET found == getVoterByPublicKey(vs, sub.publicKey)
        vote == makeVote(sub, found[1], n + 1, t)
        added == addVote(c, vote, t)
    IN  [result |-> added.result,
         voters |-> IF added.result.isValid THEN marked.voters ELSE vs,
         chain |-> added.chain, uuids |-> n + 1]

\* submitVote when verifySignature throws on the signature it is given: the
\* catch block's result, the registry and the chain being as they were.
submitVoteThrowing(vs, c, t, n, sub) ==
    LET found == getVoterByPublicKey(vs, sub.publicKey)
    IN  IF found = <<>>
        THEN [result |-> Rejected("Voter not found or not registered"),
              voters |-> vs, chain |-> c, uuids |-> n]
        ELSE IF ~isVoterEligible(vs, found[1].id)
        THEN [result |-> Rejected("Voter has already voted or is not eligible"),
              voters |-> vs, chain |-> c, uuids |-> n]
        ELSE [result |-> Rejected("Vote submission failed"),
              voters |-> vs, chain |-> c, uuids |-> n]

\* createVoteWithProof signing a hash it recomputes from a later reading of
\* the clock.
createVoteWithProofSignsLaterHash(candidateId, voterId, privateKey, timestamp, secret) ==
    LET voteHash == createVoteHash(candidateId, voterId, timestamp)
        zkProof == createVoteProof(candidateId, voterId, secret)
    IN  [voteHash |-> voteHash,
         zeroKnowledgeProof |-> zkProof.commitment,
         signature |-> signMessage(createVoteHash(candidateId, voterId,
                                                  timestamp + 1),
                                   privateKey)]

createVoteWithProof(candidateId, voterId, privateKey, timestamp, secret) ==
    LET voteHash == createVoteHash(candidateId, voterId, timestamp)
        zkProof == createVoteProof(candidateId, voterId, secret)
    IN  [voteHash |-> voteHash,
         zeroKnowledgeProof |-> zkProof.commitment,
         signature |-> signMessage(voteHash, privateKey)]

RECURSIVE Reverse(_)
Reverse(seq) ==
    IF seq = <<>> THEN <<>> ELSE Append(Reverse(Tail(seq)), Head(seq))

\* getAllVotes listing the newest vote first.
getAllVotesNewestFirst == Reverse(blockchainGetAllVotes(chain))

getAllVotes == blockchainGetAllVotes(chain)

getVotesByCandidate(candidateId) ==
    SelectSeq(getAllVotes, LAMBDA v : v.candidateId = candidateId)

\* A value held in the counts object: the number n when prefix is "", else
\* the string made of prefix followed by n digits 1.
jsNumber(n) == [prefix |-> "", n |-> n]

\* counts is an object literal: a key it does not own is looked up on
\* Object.prototype, whose properties convert to these strings under "+".
ObjectPrototype ==
    [key \in {"constructor", "toString", "__proto__"} |->
        CASE key = "constructor" -> "function Object() { [native code] }"
          [] key = "toString" -> "function toString() { [native code] }"
          [] key = "__proto__" -> "[object Object]"]

\* counts[candidateId] || 0.
countOrZero(counts, candidateId) ==
    IF candidateId \in DOMAIN counts THEN counts[candidateId]
    ELSE IF candidateId \in DOMAIN ObjectPrototype
    THEN [prefix |-> ObjectPrototype[candidateId], n |-> 0]
    ELSE jsNumber(0)

\* counts[candidateId] = value: the __proto__ setter drops a value that is no
\* object, every other key becomes an own property.
setCount(counts, candidateId, value) ==
    IF candidateId = "__proto__" THEN counts
    ELSE [c \in DOMAIN counts \cup {candidateId} |->
             IF c = candidateId THEN value ELSE counts[c]]

\* The forEach of getVoteCounts over the votes, from the counts so far.
RECURSIVE countVotes(_, _)
countVotes(votes, counts) ==
    IF votes = <<>> THEN counts
    ELSE LET candidateId == Head(votes).candidateId
             prior == countOrZero(counts, candidateId)
         IN  countVotes(Tail(votes),
                        setCount(counts, candidateId,
                                 [prior EXCEPT !.n = @ + 1]))

getVoteCounts == countVotes(getAllVotes, <<>>)

verifyBlockchainIntegrity == verifyChain(chain)

\* ------------------------------------------------- TamperDetectionService
HourMs == 3600000

recordSuspiciousActivity(log, t, type, description, severity) ==
    Append(log, [timestamp |-> t, type |-> type, description |-> description,
                 severity |-> severity])

getSuspiciousActivities == suspiciousActivities

RECURSIVE hasDuplicate(_)
hasDuplicate(seq) ==
    IF seq = <<>> THEN FALSE
    ELSE \/ \E i \in 2..Len(seq) : seq[i] = Head(seq)
         \/ hasDuplicate(Tail(seq))

\* The audit comparing the timestamps with the clock the wrong way round.
auditIntegrityFlagsPast(c, t) ==
    LET allVotes == blockchainGetAllVotes(c)
        voteHashes == [i \in 1..Len(allVotes) |-> allVotes[i].voteHash]
        futureVotes == SelectSeq(allVotes, LAMBDA v : v.timestamp < t)
        issues ==
            (IF ~verifyChain(c)
             THEN <<"Blockchain chain integrity compromised">> ELSE <<>>)
            \o (IF hasDuplicate(voteHashes)
                THEN <<"Hash collision detected in votes">> ELSE <<>>)
            \o (IF Len(futureVotes) > 0
                THEN <<"Future timestamp votes detected">> ELSE <<>>)
    IN  [isIntact |-> Len(issues) = 0, issues |-> issues]

\* The audit taking a vote stamped at the audit's own time for a future one.
auditIntegrityFlagsPresent(c, t) ==
    LET allVotes == blockchainGetAllVotes(c)
        voteHashes == [i \in 1..Len(allVotes) |-> allVotes[i].voteHash]
        futureVotes == SelectSeq(allVotes, LAMBDA v : v.timestamp >= t)
        issues ==
            (IF ~verifyChain(c)
             THEN <<"Blockchain chain integrity compromised">> ELSE <<>>)
            \o (IF hasDuplicate(voteHashes)
                THEN <<"Hash collision detected in votes">> ELSE <<>>)
            \o (IF Len(futureVotes) > 0
                THEN <<"Future timestamp votes detected">> ELSE <<>>)
    IN  [isIntact |-> Len(issues) = 0, issues |-> issues]

\* TamperDetectionService.verifyBlockchainIntegrity at time t.
auditIntegrity(c, t) ==
    LET allVotes == blockchainGetAllVotes(c)
        voteHashes == [i \in 1..Len(allVotes) |-> allVotes[i].voteHash]
        futureVotes == SelectSeq(allVotes, LAMBDA v : v.timestamp > t)
        issues ==
            (IF ~verifyChain(c)
             THEN <<"Blockchain chain integrity compromised">> ELSE <<>>)
            \o (IF hasDuplicate(voteHashes)
                THEN <<"Hash collision detected in votes">> ELSE <<>>)
            \o (IF Len(futureVotes) > 0
                THEN <<"Future timestamp votes detected">> ELSE <<>>)
    IN  [isIntact |-> Len(issues) = 0, issues |-> issues]

getTamperStats(log, t) ==
    LET oneHourAgo == t - HourMs
        severities == {log[i].severity : i \in 1..Len(log)}
    IN  [totalActivities |-> Len(log),
         bySeverity |-> [sev \in severities |->
                            Len(SelectSeq(log, LAMBDA a : a.severity = sev))],
         recentActivities |->
            Len(SelectSeq(log, LAMBDA a : a.timestamp > oneHourAgo))]

clearOldActivities(log, t, olderThanHours) ==
    LET cutoffTime == t - (olderThanHours * HourMs)
    IN  SelectSeq(log, LAMBDA a : a.timestamp > cutoffTime)

\* The result detectTampering returns: submitVote's shape, without an index.
Cleared == [isValid |-> TRUE, reason |-> "", blockIndex |-> -1]

\* detectUnusualPatterns for the vote, at time t: the log it leaves.
detectUnusualPatterns(log, c, t, vote) ==
    LET allVotes == blockchainGetAllVotes(c)
        abs(x) == IF x < 0 THEN -x ELSE x
        recentVotes ==
            SelectSeq(allVotes,
                      LAMBDA v : abs(v.timestamp - vote.timestamp) < 60000)
        identicalTimestampVotes ==
            SelectSeq(allVotes, LAMBDA v : v.timestamp = vote.timestamp)
        afterRapid ==
            IF Len(recentVotes) > 5
            THEN recordSuspiciousActivity(
                     log, t, "rapid_voting",
                     <<"Rapid voting pattern detected around",
                       vote.timestamp>>, "medium")
            ELSE log
    IN  IF Len(identicalTimestampVotes) > 3
        THEN recordSuspiciousActivity(
                 afterRapid, t, "batch_tampering",
                 <<"Multiple votes with identical timestamp detected">>,
                 "high")
        ELSE afterRapid

\* detectTampering for the vote and the key, at time t: its result and the
\* log it leaves.
detectTampering(log, c, t, vote, publicKey) ==
    IF ~verifySignature(vote.voteHash, vote.signature, publicKey)
    THEN [result |-> Rejected("Tampering detected: Invalid signature"),
          suspiciousActivities |->
              recordSuspiciousActivity(
                  log, t, "invalid_signature",
                  <<"Invalid signature detected for vote", vote.id>>, "high")]
    ELSE IF ~verifyVoteProof([commitment |-> vote.zeroKnowledgeProof,
                              proof |-> vote.zeroKnowledgeProof,
                              publicInputs |->
                                  <<vote.candidateId, vote.voterId>>],
                             vote.candidateId, vote.voterId)
    THEN [result |->
              Rejected("Tampering detected: Invalid zero-knowledge proof"),
          suspiciousActivities |->
              recordSuspiciousActivity(
                  log, t, "invalid_zk_proof",
                  <<"Invalid zero-knowledge proof detected for vote",
                    vote.id>>, "high")]
    ELSE IF findVoteByVoterId(c, vote.voterId) # <<>>
    THEN [result |-> Rejected("Tampering detected: Duplicate vote attempt"),
          suspiciousActivities |->
              recordSuspiciousActivity(
                  log, t, "duplicate_vote_attempt",
                  <<"Duplicate vote attempt detected for voter",
                    vote.voterId>>, "high")]
    ELSE IF vote.voteHash # createVoteHash(vote.candidateId, vote.voterId,
                                           vote.timestamp)
    THEN [result |->
              Rejected("Tampering detected: Vote hash has been modified"),
          suspiciousActivities |->
              recordSuspiciousActivity(
                  log, t, "hash_tampering",
                  <<"Vote hash tampering detected for vote", vote.id>>,
                  "high")]
    ELSE [result |-> Cleared,
          suspiciousActivities |-> detectUnusualPatterns(log, c, t, vote)]

\* detectTampering when a call it makes throws: its catch block.
detectTamperingCatch(log, t, vote) ==
    [result |-> Rejected("Tampering detection failed"),
     suspiciousActivities |->
         recordSuspiciousActivity(
             log, t, "verification_error",
             <<"Vote verification error for vote", vote.id>>, "medium")]

\* ------------------------------------------------------------ the clients
OtherCandidate(c) == CHOOSE d \in Candidates : d # c

OtherKey(k) == CHOOSE j \in PrivateKeys : j # k

\* The voter id a client holding the key puts into its vote material.
ClientVoterId(privateKey) ==
    LET found == getVoterByPublicKey(voters, PublicKeyOf(privateKey))
    IN  IF found = <<>> THEN "v1" ELSE found[1].id

SubmissionOf(publicKey, candidateId, material) ==
    [publicKey |-> publicKey, voteHash |-> material.voteHash,
     signature |-> material.signature,
     zeroKnowledgeProof |-> material.zeroKnowledgeProof,
     candidateId |-> candidateId]

\* The body an honest client posts: the material createVoteWithProof made
\* at time t with the client's key, unmodified, with the client's public key.
HonestSubmission(candidateId, privateKey, t, secret) ==
    SubmissionOf(PublicKeyOf(privateKey), candidateId,
                 createVoteWithProof(candidateId, ClientVoterId(privateKey),
                                     privateKey, t, secret))

\* What a client may do to that body before posting it.
Tampers == {"candidate", "rehash", "signature", "proof", "missing"}

Tampered(sub, privateKey, tamper) ==
    CASE tamper = "candidate" ->
            [sub EXCEPT !.candidateId = OtherCandidate(@)]
      [] tamper = "rehash" ->
            LET h == [sub.voteHash EXCEPT ![3] = @ + 1]
            IN  [sub EXCEPT !.voteHash = h,
                            !.signature = signMessage(h, privateKey)]
      [] tamper = "signature" ->
            [sub EXCEPT !.signature =
                            signMessage(sub.voteHash, OtherKey(privateKey))]
      [] tamper = "proof" ->
            [sub EXCEPT !.zeroKnowledgeProof = <<"cX", "vX", "sX">>]
      [] tamper = "missing" ->
            [sub EXCEPT !.candidateId = ""]

\* The bodies posted to /submit: honest ones, made now or when the clock
\* started, and tampered ones, made now for the first candidate.
HonestSubmissions ==
    {HonestSubmission(c, k, t, s) :
        c \in Candidates, k \in PrivateKeys, t \in {0, now}, s \in Secrets}

TamperedSubmissions ==
    {Tampered(HonestSubmission("cA", k, now, s), k, m) :
        k \in PrivateKeys, s \in Secrets, m \in Tampers}

Submissions == HonestSubmissions \cup TamperedSubmissions

\* --------------------------------------------------------------- router
missingField(sub) ==
    \/ sub.publicKey = NoKey
    \/ sub.voteHash = <<>>
    \/ sub.signature = <<>>
    \/ sub.zeroKnowledgeProof = <<>>
    \/ sub.candidateId = ""

\* The server takes another request while fewer than MaxRequests await
\* their response.
FreeSlot == BagCardinality(req) < MaxRequests

Init ==
    /\ voters = <<>>
    /\ registeredPublicKeys = {}
    /\ chain = <<GenesisBlock>>
    /\ suspiciousActivities = <<>>
    /\ now = 0
    /\ uuids = 0
    /\ req = EmptyBag
    /\ issued = {}

Tick ==
    /\ now < MaxTime
    /\ now' = now + 1
    /\ UNCHANGED <<voters, registeredPublicKeys, chain, suspiciousActivities,
                   uuids, req, issued>>

\* POST /register with both fields present.
RouterRegister(voterId, publicKey) ==
    /\ voterId # "" /\ publicKey # NoKey
    /\ LET out == registerVoter(voters, registeredPublicKeys, voterId,
                                publicKey)
       IN  /\ voters' = out.voters
           /\ registeredPublicKeys' = out.registeredPublicKeys
    /\ UNCHANGED <<chain, suspiciousActivities, now, uuids, req, issued>>

\* POST /register without a voter id or a key: 400, nothing is called.
RouterRegisterBadRequest(voterId, publicKey) ==
    /\ voterId = "" \/ publicKey = NoKey
    /\ UNCHANGED vars

\* The handler reporting every rejection, whatever its reason, to the log.
handleSubmitRecordsRejections(sub) ==
    LET out == submitVote(voters, chain, now, uuids, sub)
    IN  [result |-> out.result, voters |-> out.voters, chain |-> out.chain,
         uuids |-> out.uuids,
         suspiciousActivities |->
             IF out.result.isValid THEN suspiciousActivities
             ELSE recordSuspiciousActivity(suspiciousActivities, now,
                                           "rejected", <<out.result.reason>>,
                                           "high")]

\* What the POST /submit handler leaves behind for a body with every field:
\* submitVote's result and the registry, chain and id count it leaves, and
\* the activity log, which VoteService holds no reference to.
handleSubmit(sub) ==
    LET out == submitVote(voters, chain, now, uuids, sub)
    IN  [result |-> out.result, voters |-> out.voters, chain |-> out.chain,
         uuids |-> out.uuids, suspiciousActivities |-> suspiciousActivities]

\* POST /submit up to its await: the whole of submitVote runs in this step.
RouterSubmit(sub) ==
    /\ FreeSlot
    /\ ~missingField(sub)
    /\ LET out == handleSubmit(sub)
       IN  /\ voters' = out.voters
           /\ chain' = out.chain
           /\ uuids' = out.uuids
           /\ suspiciousActivities' = out.suspiciousActivities
           /\ req' = req (+) SetToBag({out.result})
    /\ UNCHANGED <<registeredPublicKeys, now, issued>>

\* POST /submit with a field missing: 400, submitVote is not called.
RouterSubmitBadRequest(sub) ==
    /\ FreeSlot
    /\ missingField(sub)
    /\ UNCHANGED vars

\* The response reading the block index off the chain's tail after the await.
RouterSubmitRespondReadsTail(result) ==
    /\ BagIn(result, req)
    /\ issued' = IF result.isValid
                 THEN issued \cup {Len(chain) - 1}
                 ELSE issued
    /\ req' = req (-) SetToBag({result})
    /\ UNCHANGED <<voters, registeredPublicKeys, chain, suspiciousActivities,
                   now, uuids>>

\* POST /submit after its await: the response goes out.
RouterSubmitRespond(result) ==
    /\ BagIn(result, req)
    /\ issued' = IF result.isValid
                 THEN issued \cup {result.blockIndex}
                 ELSE issued
    /\ req' = req (-) SetToBag({result})
    /\ UNCHANGED <<voters, registeredPublicKeys, chain, suspiciousActivities,
                   now, uuids>>

\* GET /votes, /votes/candidate/:id, /results and /stats: the response is
\* computed and the services are left as they were.
RouterRead ==
    /\ Len(getAllVotes) >= 0
    /\ \A c \in Candidates : Len(getVotesByCandidate(c)) <= Len(getAllVotes)
    /\ \A c \in DOMAIN getVoteCounts : getVoteCounts[c].n >= 1
    /\ getBlockchainInfo(chain).length = Len(chain)
    /\ getVoterStats(voters).total = Len(voters)
    /\ UNCHANGED vars

\* GET /blockchain/integrity, /tamper-detection/activities and
\* /tamper-detection/stats.
RouterTamperRead ==
    /\ auditIntegrity(chain, now).isIntact \in BOOLEAN
    /\ Len(getSuspiciousActivities) >= 0
    /\ getTamperStats(suspiciousActivities, now).totalActivities >= 0
    /\ UNCHANGED vars

\* clearOldActivities, which a scheduler outside the services calls.
ClearOldActivities(olderThanHours) ==
    /\ suspiciousActivities' =
           clearOldActivities(suspiciousActivities, now, olderThanHours)
    /\ UNCHANGED <<voters, registeredPublicKeys, chain, now, uuids, req,
                   issued>>

\* The bodies posted to /register: each voter with the key of the same
\* number, the second voter with the first one's key, a malformed key, and
\* bodies lacking a field.
Registrations ==
    {<<"v1", PublicKeyOf("k1")>>, <<"v2", PublicKeyOf("k2")>>,
     <<"v2", PublicKeyOf("k1")>>, <<"v1", MalformedKey>>,
     <<"", PublicKeyOf("k2")>>, <<"v2", NoKey>>}

Next ==
    \/ Tick
    \/ \E reg \in Registrations : RouterRegister(reg[1], reg[2])
    \/ \E reg \in Registrations : RouterRegisterBadRequest(reg[1], reg[2])
    \/ \E sub \in Submissions : RouterSubmit(sub)
    \/ \E sub \in Submissions : RouterSubmitBadRequest(sub)
    \/ \E result \in BagToSet(req) : RouterSubmitRespond(result)
    \/ RouterRead
    \/ RouterTamperRead
    \/ \E h \in {0, 24} : ClearOldActivities(h)

Spec == Init /\ [][Next]_vars

\* ------------------------------------------------- the admission pipeline
\* The five gates of the admission pipeline for a posted body, on the state
\* the handler finds: voter resolution and eligibility, and the four checks
\* detectTampering makes on the vote built from the body.
resolvedVoter(sub) == getVoterByPublicKey(voters, sub.publicKey)

gateVoter(sub) ==
    /\ resolvedVoter(sub) # <<>>
    /\ isVoterEligible(voters, resolvedVoter(sub)[1].id)

gateSignature(sub) ==
    verifySignature(sub.voteHash, sub.signature, sub.publicKey)

gateProof(sub) ==
    LET voterId == resolvedVoter(sub)[1].id
    IN  verifyVoteProof([commitment |-> sub.zeroKnowledgeProof,
                         proof |-> sub.zeroKnowledgeProof,
                         publicInputs |-> <<sub.candidateId, voterId>>],
                        sub.candidateId, voterId)

gateDuplicate(sub) ==
    findVoteByVoterId(chain, resolvedVoter(sub)[1].id) = <<>>

gateHash(sub) ==
    sub.voteHash = createVoteHash(sub.candidateId, resolvedVoter(sub)[1].id,
                                  now)

\* The number of the first gate the body fails, 0 when it passes all five.
firstFailingGate(sub) ==
    IF ~gateVoter(sub) THEN 1
    ELSE IF ~gateSignature(sub) THEN 2
    ELSE IF ~gateProof(sub) THEN 3
    ELSE IF ~gateDuplicate(sub) THEN 4
    ELSE IF ~gateHash(sub) THEN 5
    ELSE 0

\* The gate a rejection's reason names, 0 for a reason that names none.
gateOfReason(reason) ==
    CASE reason \in {"Voter not found or not registered",
                     "Voter has already voted or is not eligible"} -> 1
      [] reason \in {"Invalid signature",
                     "Tampering detected: Invalid signature"} -> 2
      [] reason \in {"Invalid zero-knowledge proof",
                     "Tampering detected: Invalid zero-knowledge proof"} -> 3
      [] reason = "Tampering detected: Duplicate vote attempt" -> 4
      [] reason = "Tampering detected: Vote hash has been modified" -> 5
      [] OTHER -> 0

\* ------------------------------------------- the monitor, called directly
\* The router constructs the TamperDetectionService and calls its reads; the
\* calls below are those of a caller that also hands it votes to inspect.

\* A blob that is no signature: verifySignature may answer false or throw.
Garbled == [msg |-> <<>>, signer |-> ""]

GarbledSubmissions ==
    {[HonestSubmission("cA", k, now, s) EXCEPT !.signature = Garbled] :
        k \in PrivateKeys, s \in Secrets}

\* The vote object built from a posted body, as submitVote builds it, under
\* an id of the caller's.
callerVote(sub, timestamp) ==
    makeVote(sub, resolvedVoter(sub)[1], 0, timestamp)

DetectTampering(sub, timestamp) ==
    /\ Len(suspiciousActivities) < MaxLog
    /\ resolvedVoter(sub) # <<>>
    /\ suspiciousActivities' =
           detectTampering(suspiciousActivities, chain, now,
                           callerVote(sub, timestamp),
                           sub.publicKey).suspiciousActivities
    /\ UNCHANGED <<voters, registeredPublicKeys, chain, now, uuids, req,
                   issued>>

\* detectTampering on a vote whose signature makes verifySignature throw.
DetectTamperingFault(sub, timestamp) ==
    /\ Len(suspiciousActivities) < MaxLog
    /\ resolvedVoter(sub) # <<>>
    /\ suspiciousActivities' =
           detectTamperingCatch(suspiciousActivities, now,
                                callerVote(sub, timestamp)).suspiciousActivities
    /\ UNCHANGED <<voters, registeredPublicKeys, chain, now, uuids, req,
                   issued>>

\* What the POST /submit handler leaves behind when verifySignature throws.
handleSubmitFault(sub) ==
    LET out == submitVoteThrowing(voters, chain, now, uuids, sub)
    IN  [result |-> out.result, voters |-> out.voters, chain |-> out.chain,
         uuids |-> out.uuids, suspiciousActivities |-> suspiciousActivities]

RouterSubmitFault(sub) ==
    /\ FreeSlot
    /\ ~missingField(sub)
    /\ LET out == handleSubmitFault(sub)
       IN  /\ voters' = out.voters
           /\ chain' = out.chain
           /\ uuids' = out.uuids
           /\ suspiciousActivities' = out.suspiciousActivities
           /\ req' = req (+) SetToBag({out.result})
    /\ UNCHANGED <<registeredPublicKeys, now, issued>>

\* The bodies posted to /submit: the honest ones for the first candidate.
MonitorSubmissions ==
    {HonestSubmission("cA", k, now, s) : k \in PrivateKeys, s \in Secrets}

\* The bodies handed to detectTampering: the first key's, honest, tampered
\* and garbled.
InspectedSubmissions ==
    {sub \in Submissions \cup GarbledSubmissions :
        /\ sub.publicKey = PublicKeyOf("k1")
        /\ ~missingField(sub)
        /\ sub.voteHash[3] = now}

MonitorRegistrations ==
    {<<"v1", PublicKeyOf("k1")>>, <<"v2", PublicKeyOf("k2")>>}

\* One client at a time: a body is posted once the last response is out.
MonitorNext ==
    \/ Tick
    \/ \E reg \in MonitorRegistrations : RouterRegister(reg[1], reg[2])
    \/ \E sub \in MonitorSubmissions : req = EmptyBag /\ RouterSubmit(sub)
    \/ \E sub \in GarbledSubmissions : req = EmptyBag /\ RouterSubmitFault(sub)
    \/ \E result \in BagToSet(req) : RouterSubmitRespond(result)
    \/ \E sub \in InspectedSubmissions : DetectTampering(sub, now)
    \/ \E sub \in InspectedSubmissions \cap GarbledSubmissions :
          DetectTamperingFault(sub, now)
    \/ RouterTamperRead
    \/ \E h \in {0, 24} : ClearOldActivities(h)

MonitorSpec == Init /\ [][MonitorNext]_vars

\* ------------------------------------------------- an election in progress
\* Seven voters register one after the other and vote for the first
\* candidate in the order they registered, one request at a time; the
\* monitor is handed votes of registered voters, stamped when they were made.
ElectionVoterIds == <<"v1", "v2", "v3", "v4", "v5", "v6", "v7">>

ElectionKeys == <<"k1", "k2", "k3", "k4", "k5", "k6", "k7">>

ElectionRegister(i) ==
    /\ Len(voters) = i - 1
    /\ RouterRegister(ElectionVoterIds[i], PublicKeyOf(ElectionKeys[i]))

\* The body voter i posts, made now.
ElectionSubmission(i) == HonestSubmission("cA", ElectionKeys[i], now, "s1")

\* Voter i posts once every voter registered before has voted.
ElectionSubmit(i) ==
    /\ req = EmptyBag
    /\ i <= Len(voters)
    /\ \A j \in 1..(i - 1) : voters[j].hasVoted
    /\ RouterSubmit(ElectionSubmission(i))

\* The votes handed to detectTampering: a registered voter's, made at the
\* start of the clock or now.
ElectionInspected ==
    {HonestSubmission("cA", ElectionKeys[i], t, "s1") :
        i \in 1..Len(voters), t \in {0, now}}

ElectionInspect(sub) == DetectTampering(sub, sub.voteHash[3])

\* A minute passes, once, while the clock is within its first MaxTime ticks.
ElectionWait ==
    /\ now <= MaxTime
    /\ now' = now + 60000
    /\ UNCHANGED <<voters, registeredPublicKeys, chain, suspiciousActivities,
                   uuids, req, issued>>

ElectionNext ==
    \/ Tick
    \/ ElectionWait
    \/ \E i \in 1..Len(ElectionVoterIds) : ElectionRegister(i)
    \/ \E i \in 1..Len(ElectionVoterIds) : ElectionSubmit(i)
    \/ \E result \in BagToSet(req) : RouterSubmitRespond(result)
    \/ \E sub \in ElectionInspected : ElectionInspect(sub)
    \/ RouterTamperRead

ElectionSpec == Init /\ [][ElectionNext]_vars

\* ------------------------------------------------------ the ledger audited
\* The ledgers an audit may meet: votes two voters' clients had admitted,
\* among them one signed over another vote's digest, a stored block whose
\* previousHash was flipped, and a wall clock that was set back.

\* The body of a client that signs, with its own key, the digest of the
\* other client's vote.
CopiedHashSubmission(k) ==
    LET own == HonestSubmission("cA", k, now, "s1")
        copied == createVoteHash("cA", ClientVoterId(OtherKey(k)), now)
    IN  [own EXCEPT !.voteHash = copied,
                    !.signature = signMessage(copied, k)]

AuditSubmissions ==
    {HonestSubmission("cA", k, now, "s1") : k \in PrivateKeys}
    \cup {CopiedHashSubmission(k) : k \in PrivateKeys}

\* Date.now() reads the wall clock, which an operator may set back.
ClockSetBack ==
    /\ now > 0
    /\ now' = now - 1
    /\ UNCHANGED <<voters, registeredPublicKeys, chain, suspiciousActivities,
                   uuids, req, issued>>

\* Storage corruption: the previousHash of a stored block is flipped.
CorruptBlock(i) ==
    /\ verifyChain(chain)
    /\ i \in 2..Len(chain)
    /\ chain' = [chain EXCEPT ![i].previousHash = <<"flipped">>]
    /\ UNCHANGED <<voters, registeredPublicKeys, suspiciousActivities, now,
                   uuids, req, issued>>

AuditNext ==
    \/ Tick
    \/ ClockSetBack
    \/ \E reg \in MonitorRegistrations : RouterRegister(reg[1], reg[2])
    \/ \E sub \in AuditSubmissions : req = EmptyBag /\ RouterSubmit(sub)
    \/ \E result \in BagToSet(req) : RouterSubmitRespond(result)
    \/ \E i \in 2..Len(chain) : CorruptBlock(i)
    \/ RouterTamperRead

AuditSpec == Init /\ [][AuditNext]_vars

\* ------------------------------------------------------------- the tally
\* Two voters vote for candidate ids of their clients' choosing, which the
\* router takes as they come, one request at a time, and the tally is read.
TallyCandidates == {"cA", "constructor", "__proto__"}

TallySubmissions ==
    {HonestSubmission(c, k, now, "s1") :
        c \in TallyCandidates, k \in PrivateKeys}

TallyNext ==
    \/ Tick
    \/ \E reg \in MonitorRegistrations : RouterRegister(reg[1], reg[2])
    \/ \E sub \in TallySubmissions : req = EmptyBag /\ RouterSubmit(sub)
    \/ \E result \in BagToSet(req) : RouterSubmitRespond(result)
    \/ RouterRead

TallySpec == Init /\ [][TallyNext]_vars


\* --------------------------------------------------- the registry in use
\* The registry under every call it offers: registrations with keys of every
\* shape, submissions one at a time, markVoterAsVoted called on any id, and
\* the reads of the voters.
RegistryRegistrations ==
    Registrations
    \cup {<<"v1", PublicKeyOf("k2")>>, <<"v2", CompressedKeyOf("k1")>>,
          <<"v2", NonHexKey>>, <<"v2", WrongPrefixKey>>, <<"v2", OverlongKey>>}

RegistryVoterIds == VoterIds \cup {"v3"}

MarkVoterAsVoted(voterId) ==
    /\ voters' = markVoterAsVoted(voters, voterId).voters
    /\ UNCHANGED <<registeredPublicKeys, chain, suspiciousActivities, now,
                   uuids, req, issued>>

\* GET /voters and /voter/:voterId.
RouterVoterRead(voterId) ==
    /\ Len(getVoter(voters, voterId)) <= 1
    /\ Len(voters) >= 0
    /\ UNCHANGED vars

RegistryNext ==
    \/ Tick
    \/ \E reg \in RegistryRegistrations : RouterRegister(reg[1], reg[2])
    \/ \E reg \in RegistryRegistrations :
          RouterRegisterBadRequest(reg[1], reg[2])
    \/ \E sub \in MonitorSubmissions : req = EmptyBag /\ RouterSubmit(sub)
    \/ \E result \in BagToSet(req) : RouterSubmitRespond(result)
    \/ \E voterId \in RegistryVoterIds : MarkVoterAsVoted(voterId)
    \/ \E voterId \in RegistryVoterIds : RouterVoterRead(voterId)

RegistrySpec == Init /\ [][RegistryNext]_vars

\* --------------------------------------------------------------- helpers
IsPrefix(s1, s2) ==
    /\ Len(s1) <= Len(s2)
    /\ \A i \in 1..Len(s1) : s1[i] = s2[i]

\* The results awaiting their response, and those among them that admit.
Awaiting == BagToSet(req)

Admitted == {result \in Awaiting : result.isValid}

RejectedFor(reason) == Rejected(reason) \in Awaiting

\* The bodies the handler passes on to submitVote.
CompleteSubmissions == {sub \in Submissions : ~missingField(sub)}

IsSuffix(s1, s2) ==
    /\ Len(s1) <= Len(s2)
    /\ \A i \in 1..Len(s1) : s1[i] = s2[Len(s2) - Len(s1) + i]

\* The entries of the log with the type.
ActivitiesOfType(log, type) == SelectSeq(log, LAMBDA a : a.type = type)

\* The voter of the vote in the block with the index.
VoterOfBlock(blockIndex) == chain[blockIndex + 1].votes[1].voterId

\* ---------------------------------------------------------------- claims

\* C1: single-vote invariant: whatever registrations and submissions have
\* run, the ledger holds at most one vote of each voter id.
C1_SingleVotePerVoter ==
    \A i, j \in 1..Len(getAllVotes) :
        getAllVotes[i].voterId = getAllVotes[j].voterId => i = j

\* A second submission of the only registered voter, whose vote is in the
\* ledger, has been turned down.
C1_Witness ==
    /\ Len(voters) = 1
    /\ Len(getAllVotes) = 1
    /\ getAllVotes[1].voterId = voters[1].id
    /\ RejectedFor("Voter has already voted or is not eligible")

\* C2: of the submissions in flight together, no two were both found
\* eligible and both appended a vote for the same voter: the check, the
\* append and the mark of one submission are not interleaved with another's.
C2_NoDoubleAdmission ==
    \A r1, r2 \in Admitted :
        /\ CopiesIn(r1, req) = 1
        /\ r1 # r2 =>
              VoterOfBlock(r1.blockIndex) # VoterOfBlock(r2.blockIndex)

\* Two submissions of the same key are in flight together: one was admitted,
\* the other turned down as already voted.
C2_Witness ==
    /\ Len(voters) = 1
    /\ RejectedFor("Voter has already voted or is not eligible")
    /\ \E r \in Admitted : VoterOfBlock(r.blockIndex) = voters[1].id

\* C3: hash-construction invariant: every vote in the ledger carries the
\* digest of its own candidateId, voterId and timestamp as its voteHash.
C3_HashConstruction ==
    \A i \in 1..Len(getAllVotes) :
        getAllVotes[i].voteHash =
            createVoteHash(getAllVotes[i].candidateId, getAllVotes[i].voterId,
                           getAllVotes[i].timestamp)

\* C4: a submission is all or nothing: a rejected one leaves the ledger and
\* the registry as they were; an admitted one adds exactly one vote, the
\* submitted one under the resolved voter's id, and marks that voter alone.
C4_AllOrNothing ==
    \A sub \in CompleteSubmissions :
        LET out == handleSubmit(sub)
            after == blockchainGetAllVotes(out.chain)
        IN  IF out.result.isValid
            THEN /\ IsPrefix(chain, out.chain)
                 /\ Len(out.chain) = Len(chain) + 1
                 /\ Len(after) = Len(getAllVotes) + 1
                 /\ resolvedVoter(sub) # <<>>
                 /\ after[Len(after)] =
                        makeVote(sub, resolvedVoter(sub)[1],
                                 after[Len(after)].id, now)
                 /\ Len(out.voters) = Len(voters)
                 /\ \A i \in 1..Len(voters) :
                        out.voters[i] =
                            IF voters[i].id = resolvedVoter(sub)[1].id
                            THEN [voters[i] EXCEPT !.hasVoted = TRUE]
                            ELSE voters[i]
            ELSE /\ out.chain = chain
                 /\ out.voters = voters

\* One submission in flight was admitted and another turned down for its
\* signature.
C4_Witness ==
    /\ Admitted # {}
    /\ RejectedFor("Invalid signature")

\* The unmodified body of a client holding the key, made at time t.
IsHonestVote(vote) ==
    \E k \in PrivateKeys, t \in 0..now, s \in Secrets :
        LET material == createVoteWithProof(vote.candidateId, vote.voterId,
                                            k, t, s)
        IN  /\ vote.publicKey = PublicKeyOf(k)
            /\ vote.voteHash = material.voteHash
            /\ vote.signature = material.signature
            /\ vote.zeroKnowledgeProof = material.zeroKnowledgeProof

\* C5: the material of createVoteWithProof, made with the key of a
\* registered voter who has not voted and posted unmodified with that
\* voter's public key, is admitted: isValid with a block index, and the vote
\* is the ledger's new last vote.
C5_HonestVoteAdmitted ==
    \A c \in Candidates, k \in PrivateKeys, t \in {0, now}, s \in Secrets :
        LET sub == HonestSubmission(c, k, t, s)
            voter == getVoterByPublicKey(voters, PublicKeyOf(k))
            out == handleSubmit(sub)
            after == blockchainGetAllVotes(out.chain)
        IN  (voter # <<>> /\ voter[1].isRegistered /\ ~voter[1].hasVoted) =>
                /\ out.result.isValid
                /\ out.result.blockIndex >= 1
                /\ Len(after) = Len(getAllVotes) + 1
                /\ after[Len(after)].voterId = voter[1].id
                /\ after[Len(after)].candidateId = c
                /\ after[Len(after)].voteHash = sub.voteHash

\* An honest vote made before it was posted is in the ledger, its admission
\* still in flight.
C5_Witness ==
    \E r \in Admitted :
        LET vote == chain[r.blockIndex + 1].votes[1]
        IN  /\ IsHonestVote(vote)
            /\ vote.voteHash[3] < vote.timestamp

\* C6: linkage invariant: in every reachable state verifyChain is true: each
\* block after the genesis names its predecessor's hash as previousHash and
\* carries the digest of its own content as hash.
C6_Linkage ==
    /\ verifyBlockchainIntegrity
    /\ getBlockchainInfo(chain).isValid
    /\ chain[1] = GenesisBlock
    /\ \A i \in 2..Len(chain) :
          /\ chain[i].previousHash = chain[i - 1].hash
          /\ chain[i].hash = calculateHash(chain[i].index, chain[i].timestamp,
                                           chain[i].votes,
                                           chain[i].previousHash)

\* Two votes have been appended after the genesis block.
C6_Witness == Len(chain) = 3 /\ Len(getAllVotes) = 2

\* C7: monotonic indices: the blocks carry the indices 0, 1, 2, ... in
\* order, and every appended vote's index was handed to exactly one
\* submission: no two admitted submissions, racing or not, share an index.
C7_MonotonicIndices ==
    /\ \A i \in 1..Len(chain) : chain[i].index = i - 1
    /\ issued \subseteq 1..(Len(chain) - 1)
    /\ \A r \in Admitted :
          /\ r.blockIndex \in 1..(Len(chain) - 1)
          /\ r.blockIndex \notin issued
          /\ CopiesIn(r, req) = 1
    /\ Cardinality(issued) + Cardinality(Admitted) = Len(chain) - 1

\* Two admitted submissions are in flight together, with the indices 1 and 2.
C7_Witness ==
    \E r1, r2 \in Admitted : r1.blockIndex = 1 /\ r2.blockIndex = 2

\* C8: the ledger is append-only: over every step of every operation the
\* votes getAllVotes lists before the step are a prefix of those it lists
\* after it, and so are the blocks.
C8_AppendOnly ==
    [][/\ IsPrefix(getAllVotes, getAllVotes')
       /\ IsPrefix(chain, chain')]_vars

\* The ledger holds two votes and the clock has moved since the first.
C8_Witness ==
    /\ Len(getAllVotes) = 2
    /\ getAllVotes[1].timestamp < getAllVotes[2].timestamp

\* C9: the gates are evaluated in the order voter, signature, proof,
\* duplicate, hash and evaluation stops at the first failure: a body is
\* admitted exactly when it passes all five, a rejection names the first
\* gate the body fails, and nothing is appended unless all five pass.
C9_GatesInOrder ==
    \A sub \in CompleteSubmissions :
        LET out == handleSubmit(sub)
            gate == firstFailingGate(sub)
        IN  /\ out.result.isValid <=> gate = 0
            /\ ~out.result.isValid => gateOfReason(out.result.reason) = gate
            /\ out.chain # chain => gate = 0

\* C10: a submission failing at the signature, proof, duplicate or hash gate
\* adds one high-severity entry to the activity log.
C10_TamperSignalRecorded ==
    \A sub \in CompleteSubmissions :
        LET out == handleSubmit(sub)
            log == out.suspiciousActivities
        IN  firstFailingGate(sub) \in 2..5 =>
                /\ Len(log) = Len(suspiciousActivities) + 1
                /\ log[Len(log)].severity = "high"

\* C11: a submission failing at gate 1 (no voter holds the key, or the voter
\* has voted or is not registered) leaves the activity log as it was.
C11_GateOneNotLogged ==
    \A sub \in CompleteSubmissions \cup GarbledSubmissions :
        firstFailingGate(sub) = 1 =>
            /\ ~handleSubmit(sub).result.isValid
            /\ handleSubmit(sub).suspiciousActivities = suspiciousActivities

\* The log holds an entry and a voter who has voted was turned down at gate 1.
C11_Witness ==
    /\ Len(suspiciousActivities) > 0
    /\ \E i \in 1..Len(voters) : voters[i].hasVoted
    /\ RejectedFor("Voter has already voted or is not eligible")

C13_FaultsCaughtAndLogged ==
    /\ \A sub \in GarbledSubmissions :
          gateVoter(sub) =>
              LET out == handleSubmitFault(sub)
                  log == out.suspiciousActivities
              IN  /\ ~out.result.isValid
                  /\ out.result.reason # ""
                  /\ out.chain = chain
                  /\ Len(log) = Len(suspiciousActivities) + 1
                  /\ log[Len(log)].severity = "medium"
    /\ \A sub \in GarbledSubmissions :
          resolvedVoter(sub) # <<>> =>
              LET out == detectTamperingCatch(suspiciousActivities, now,
                                              callerVote(sub, now))
                  log == out.suspiciousActivities
              IN  /\ ~out.result.isValid
                  /\ out.result.reason # ""
                  /\ Len(log) = Len(suspiciousActivities) + 1
                  /\ log[Len(log)].severity = "medium"
    /\ \A result \in Awaiting : ~result.isValid => result.reason # ""

\* C14: the pattern heuristics run for every submission, admitted or
\* rejected: what the scan of the ledger for the submission's vote records
\* ends the log the submission leaves; and they are advisory: the scan changes
\* neither the result nor the ledger.
C14_HeuristicsAdvisory ==
    /\ \A i \in 1..Len(voters) :
          LET sub == ElectionSubmission(i)
              out == handleSubmit(sub)
              vote == makeVote(sub, resolvedVoter(sub)[1], uuids + 1, now)
              scan == detectUnusualPatterns(<<>>, out.chain, now, vote)
          IN  /\ IsSuffix(scan, out.suspiciousActivities)
              /\ out.result = submitVote(voters, chain, now, uuids, sub).result
              /\ out.chain = submitVote(voters, chain, now, uuids, sub).chain
    /\ \A sub \in ElectionInspected :
          LET vote == callerVote(sub, sub.voteHash[3])
              out == detectTampering(suspiciousActivities, chain, now, vote,
                                     sub.publicKey)
              scan == detectUnusualPatterns(<<>>, chain, now, vote)
          IN  IsSuffix(scan, out.suspiciousActivities)

\* What two successive honest submissions of the key leave, the first on the
\* present state, the second at the time t2 on what the first left.
TwoSubmissions(k, c1, c2, t2) ==
    LET first == submitVote(voters, chain, now, uuids,
                            HonestSubmission(c1, k, now, "s1"))
        second == submitVote(first.voters, first.chain, t2, first.uuids,
                             HonestSubmission(c2, k, now, "s1"))
    IN  [first |-> first.result, second |-> second.result,
         votes |-> blockchainGetAllVotes(second.chain)]

\* The key's voter is registered and has not voted, and the ledger holds the
\* genesis block only.
FreshFor(k) ==
    /\ Len(chain) = 1
    /\ gateVoter(HonestSubmission("cA", k, now, "s1"))

\* C15 (as amended): of two successive submissions by the same registered
\* voter on a fresh ledger, both with valid signature and proof, the first
\* is admitted with the block index 1 and the second is rejected at gate 1
\* as a voter who has already voted; the ledger holds exactly one vote.
C15_SecondSubmissionIneligible ==
    \A k \in PrivateKeys, c1, c2 \in Candidates, t2 \in now..MaxTime :
        FreshFor(k) =>
            LET two == TwoSubmissions(k, c1, c2, t2)
            IN  /\ two.first = [isValid |-> TRUE, reason |-> "",
                                blockIndex |-> 1]
                /\ two.second =
                       Rejected("Voter has already voted or is not eligible")
                /\ Len(two.votes) = 1
                /\ two.votes[1].candidateId = c1

\* The first response, with the index 1, is out; the same voter's second
\* submission was turned down and awaits its response.
C15_Witness ==
    /\ issued = {1}
    /\ Len(getAllVotes) = 1
    /\ Admitted = {}
    /\ RejectedFor("Voter has already voted or is not eligible")
    /\ \E i \in 1..Len(voters) :
          voters[i].hasVoted /\ voters[i].id = getAllVotes[1].voterId

\* C15 (as stated): the second of the two submissions is rejected by the
\* duplicate check, with the reason "duplicate vote".
C15_SecondSubmissionDuplicate ==
    \A k \in PrivateKeys, c1, c2 \in Candidates, t2 \in now..MaxTime :
        FreshFor(k) =>
            LET two == TwoSubmissions(k, c1, c2, t2)
            IN  /\ two.first = [isValid |-> TRUE, reason |-> "",
                                blockIndex |-> 1]
                /\ ~two.second.isValid
                /\ gateOfReason(two.second.reason) = 4
                /\ Len(two.votes) = 1

\* The body's voteHash is the digest of its candidate and the resolved
\* voter's id with no reading of the clock up to now.
HashFitsNoTimestamp(sub) ==
    /\ resolvedVoter(sub) # <<>>
    /\ \A t \in 0..now :
          sub.voteHash # createVoteHash(sub.candidateId,
                                        resolvedVoter(sub)[1].id, t)

\* C16: a submission whose voteHash is not the digest of its candidateId,
\* voterId and timestamp is rejected and the ledger keeps its length; when it
\* passes the four gates before, the reason is the hash gate's.
C16_HashMismatchRejected ==
    \A sub \in CompleteSubmissions :
        LET out == handleSubmit(sub)
        IN  /\ (resolvedVoter(sub) # <<>> /\ ~gateHash(sub)) =>
                   /\ ~out.result.isValid
                   /\ Len(out.chain) = Len(chain)
            /\ HashFitsNoTimestamp(sub) =>
                   /\ ~out.result.isValid
                   /\ Len(out.chain) = Len(chain)
            /\ firstFailingGate(sub) = 5 =>
                   gateOfReason(out.result.reason) = 5

\* The votes' timestamps lie within the span of each other.
WithinSpan(votes, span) ==
    \A i, j \in 1..Len(votes) :
        votes[i].timestamp - votes[j].timestamp <= span

\* C17: from an empty ledger and an empty log, the submissions of distinct
\* eligible voters within 10 seconds leave no rapid_voting entry while the
\* ledger holds five votes or fewer, and the sixth leaves exactly one, of
\* medium severity: getTamperStats counts one medium entry.
C17_SixthSubmissionRapidVoting ==
    \A i \in 1..Len(voters) :
        LET out == handleSubmit(ElectionSubmission(i))
            log == out.suspiciousActivities
            votes == blockchainGetAllVotes(out.chain)
            bySeverity == getTamperStats(log, now).bySeverity
        IN  (/\ suspiciousActivities = <<>>
             /\ out.result.isValid
             /\ WithinSpan(votes, 10000)) =>
                IF Len(votes) = 6
                THEN /\ Len(ActivitiesOfType(log, "rapid_voting")) = 1
                     /\ "medium" \in DOMAIN bySeverity
                     /\ bySeverity["medium"] = 1
                ELSE Len(votes) < 6 =>
                         /\ ActivitiesOfType(log, "rapid_voting") = <<>>
                         /\ "medium" \notin DOMAIN bySeverity

\* The messages of the audit.
ChainIssue == "Blockchain chain integrity compromised"

CollisionIssue == "Hash collision detected in votes"

FutureIssue == "Future timestamp votes detected"

Reported(audit, issue) == \E i \in 1..Len(audit.issues) : audit.issues[i] = issue

\* C18: the audit reports the union of three independent checks: the chain
\* issue exactly when verifyChain is false, the collision issue exactly when
\* two votes of the ledger share a voteHash, the future-timestamp issue
\* exactly when a vote's timestamp is strictly later than the audit's now;
\* nothing else is reported, and the ledger is intact exactly when no issue is.
C18_AuditUnionOfChecks ==
    LET audit == auditIntegrity(chain, now)
        votes == getAllVotes
        broken == ~verifyChain(chain)
        collision == \E i, j \in 1..Len(votes) :
                        i # j /\ votes[i].voteHash = votes[j].voteHash
        future == \E i \in 1..Len(votes) : votes[i].timestamp > now
        count(b) == IF b THEN 1 ELSE 0
    IN  /\ Reported(audit, ChainIssue) <=> broken
        /\ Reported(audit, CollisionIssue) <=> collision
        /\ Reported(audit, FutureIssue) <=> future
        /\ Len(audit.issues) = count(broken) + count(collision) + count(future)
        /\ audit.isIntact <=> audit.issues = <<>>

\* A ledger with all three defects: the audit lists three issues.
C18_Witness ==
    /\ ~verifyChain(chain)
    /\ Len(auditIntegrity(chain, now).issues) = 3
    /\ ~auditIntegrity(chain, now).isIntact

\* The clock readings a second audit may make.
AuditTimes == 0..(MaxTime + 1)

\* A vote of the ledger is stamped later than one of the two readings and
\* not later than the other.
StampedBetween(t1, t2) ==
    \E i \in 1..Len(getAllVotes) :
        (getAllVotes[i].timestamp > t1) # (getAllVotes[i].timestamp > t2)

\* C19 (as amended): two audits with no ledger mutation between them give
\* the same {isIntact, issues} whenever no vote is stamped later than one
\* audit's clock reading and not later than the other's; so they do on every
\* ledger without future-stamped votes when the clock only advances.
C19_AuditRepeatable ==
    /\ \A t2 \in AuditTimes :
          ~StampedBetween(now, t2) =>
              auditIntegrity(chain, now) = auditIntegrity(chain, t2)
    /\ (\A i \in 1..Len(getAllVotes) : getAllVotes[i].timestamp <= now) =>
          \A t2 \in AuditTimes :
              t2 >= now =>
                  auditIntegrity(chain, now) = auditIntegrity(chain, t2)

\* The ledger holds two votes, one of them stamped later than the clock now
\* reads, and the audit reports it.
C19_Witness ==
    /\ Len(getAllVotes) = 2
    /\ Reported(auditIntegrity(chain, now), FutureIssue)
    /\ \E i \in 1..2 : getAllVotes[i].timestamp <= now

\* C19 (as stated): two audits with no ledger mutation between them give the
\* same result on every reachable ledger, whatever the clock reads at the
\* second.
C19_AuditIdempotent ==
    \A t2 \in AuditTimes :
        t2 >= now => auditIntegrity(chain, now) = auditIntegrity(chain, t2)

\* How many votes of the ledger are stamped within the minute that ends at
\* the timestamp, and how many exactly at it.
TrailingCount(timestamp) ==
    Cardinality({i \in 1..Len(getAllVotes) :
                    /\ getAllVotes[i].timestamp <= timestamp
                    /\ timestamp - getAllVotes[i].timestamp < 60000})

IdenticalCount(timestamp) ==
    Cardinality({i \in 1..Len(getAllVotes) :
                    getAllVotes[i].timestamp = timestamp})

\* C20: for a new vote that reaches the scan, rapid_voting (medium) is
\* recorded exactly when more than 5 votes of the ledger lie in the trailing
\* minute that ends at the vote's timestamp, votes stamped later not
\* counting, and batch_tampering (high) exactly when more than 3 votes of the
\* ledger carry the vote's timestamp.
C20_ScanTrailingWindow ==
    \A sub \in ElectionInspected :
        LET vote == callerVote(sub, sub.voteHash[3])
            out == detectTampering(suspiciousActivities, chain, now, vote,
                                   sub.publicKey)
            log == out.suspiciousActivities
            added == SubSeq(log, Len(suspiciousActivities) + 1, Len(log))
            rapid == ActivitiesOfType(added, "rapid_voting")
            batch == ActivitiesOfType(added, "batch_tampering")
        IN  out.result.isValid =>
                /\ Len(rapid) = IF TrailingCount(vote.timestamp) > 5
                                THEN 1 ELSE 0
                /\ Len(batch) = IF IdenticalCount(vote.timestamp) > 3
                                THEN 1 ELSE 0
                /\ \A i \in 1..Len(rapid) : rapid[i].severity = "medium"
                /\ \A i \in 1..Len(batch) : batch[i].severity = "high"
                /\ Len(added) = Len(rapid) + Len(batch)

\* The entries prune(maxAgeHours) is to keep at time t: those not older than
\* the cutoff, in the order of the log.
NotOlderThanCutoff(log, t, maxAgeHours) ==
    SelectSeq(log, LAMBDA a : a.timestamp >= t - (maxAgeHours * HourMs))

\* The retention periods the scheduler prunes with.
RetentionHours == {0, 24}

\* C21: prune(maxAgeHours) removes exactly the entries of the activity log
\* stamped before now - maxAgeHours and keeps every other entry, one stamped
\* at the cutoff included, in insertion order; and no step other than a prune
\* removes or reorders an entry: every other step leaves the log a prefix of
\* what it becomes.
C21_PruneExact ==
    [][/\ \A h \in RetentionHours :
             clearOldActivities(suspiciousActivities, now, h) =
                 NotOlderThanCutoff(suspiciousActivities, now, h)
       /\ \/ IsPrefix(suspiciousActivities, suspiciousActivities')
          \/ \E h \in RetentionHours :
                suspiciousActivities' =
                    clearOldActivities(suspiciousActivities, now, h)]_vars

\* The sum of the counts over the keys.
RECURSIVE SumOfCounts(_, _)
SumOfCounts(counts, keys) ==
    IF keys = {} THEN 0
    ELSE LET key == CHOOSE k \in keys : TRUE
         IN  counts[key].n + SumOfCounts(counts, keys \ {key})

\* C22: tally consistency: in every reachable state getVoteCounts holds, for
\* every candidate id with a vote in the ledger, the number of votes
\* getVotesByCandidate lists for it, and no other key; the counts add up to
\* the number of votes getAllVotes lists, which does not exceed the number of
\* registered voters.
C22_TallyConsistent ==
    LET counts == getVoteCounts
        voted == {getAllVotes[i].candidateId : i \in 1..Len(getAllVotes)}
    IN  /\ DOMAIN counts = voted
        /\ \A c \in voted :
              counts[c] = jsNumber(Len(getVotesByCandidate(c)))
        /\ \A c \in TallyCandidates \ voted : getVotesByCandidate(c) = <<>>
        /\ SumOfCounts(counts, DOMAIN counts) = Len(getAllVotes)
        /\ Len(getAllVotes) <= getVoterStats(voters).total

\* C23: registry/ledger agreement: whatever registrations and submissions
\* have run, a voter has hasVoted exactly when the ledger holds a vote under
\* that voter's id, every vote of the ledger is a registered voter's, and
\* getVoterStats().voted is the number of votes in the ledger.
C23_RegistryLedgerAgreement ==
    /\ \A i \in 1..Len(voters) :
          voters[i].hasVoted <=>
              findVoteByVoterId(chain, voters[i].id) # <<>>
    /\ \A i \in 1..Len(getAllVotes) :
          hasVoter(voters, getAllVotes[i].voterId)
    /\ getVoterStats(voters).voted = Len(getAllVotes)
    /\ getVoterStats(voters).remaining = Len(voters) - Len(getAllVotes)

\* Of two registered voters one has voted and the other, whose submission
\* was turned down for its signature, has not.
C23_Witness ==
    /\ Len(voters) = 2
    /\ getVoterStats(voters).voted = 1
    /\ Len(getAllVotes) = 1
    /\ RejectedFor("Invalid signature")
    /\ Admitted = {}

\* The public keys of the stored voters.
StoredKeys(vs) == {vs[i].publicKey : i \in 1..Len(vs)}

\* C24: registry uniqueness: whatever registrations have run, no two stored
\* voters share a public key or an id, and registeredPublicKeys is the set of
\* the stored voters' keys; a registerVoter call with a registered voter id,
\* a key some stored voter holds or a malformed key answers success = false
\* and leaves the voters and the keys as they were.
C24_RegistryUniqueness ==
    /\ \A i, j \in 1..Len(voters) :
          (voters[i].publicKey = voters[j].publicKey
           \/ voters[i].id = voters[j].id) => i = j
    /\ registeredPublicKeys = StoredKeys(voters)
    /\ \A reg \in RegistryRegistrations :
          LET out == registerVoter(voters, registeredPublicKeys, reg[1],
                                   reg[2])
          IN  (\/ hasVoter(voters, reg[1])
               \/ reg[2] \in StoredKeys(voters)
               \/ ~isValidPublicKey(reg[2])) =>
                  /\ ~out.success
                  /\ out.error # ""
                  /\ out.voters = voters
                  /\ out.registeredPublicKeys = registeredPublicKeys

\* Two voters are stored, the first of whom has voted; the second holds the
\* compressed encoding of the first one's key.
C24_Witness ==
    /\ Len(voters) = 2
    /\ voters[1].hasVoted
    /\ voters[1].publicKey = PublicKeyOf("k1")
    /\ voters[2].publicKey = CompressedKeyOf("k1")
    /\ Cardinality(registeredPublicKeys) = 2

\* The voter id is stored with hasVoted set.
HasVoted(vs, voterId) ==
    \E i \in 1..Len(vs) : vs[i].id = voterId /\ vs[i].hasVoted

\* C25: hasVoted is monotone: a voter markVoterAsVoted succeeds for has
\* hasVoted set, and a voter with hasVoted set is not eligible and keeps it
\* set over every step, of a registration, a submission or a mark.
C25_HasVotedMonotone ==
    [][\A voterId \in RegistryVoterIds :
          /\ markVoterAsVoted(voters, voterId).ok =>
                HasVoted(markVoterAsVoted(voters, voterId).voters, voterId)
          /\ HasVoted(voters, voterId) =>
                /\ ~isVoterEligible(voters, voterId)
                /\ HasVoted(voters', voterId)
                /\ ~isVoterEligible(voters', voterId)]_vars

\* A voter marked by a direct call, with no vote in the ledger, posted a
\* body and was turned down.
C25_Witness ==
    /\ Len(getAllVotes) = 0
    /\ \E i \in 1..Len(voters) : voters[i].hasVoted
    /\ RejectedFor("Voter has already voted or is not eligible")

====
